---- MODULE Spec2Model ----
(***************************************************************************)
(* Model of the overlax server: the reminder scanner (triggerReminderCheck *)
(* and sendTelegramNotification), the in-memory ledger                     *)
(* global.notifiedTasks, the task routes, and the chat-id registry         *)
(* chatIds.json written by the Telegram bot (/start, /stop) and by         *)
(* POST /api/connect-telegram.                                             *)
(*                                                                         *)
(* Time is counted in minutes.  A step of the model is one run of          *)
(* JavaScript between two awaits on I/O: Node runs such a block without    *)
(* interleaving, and interleaves blocks of different handlers freely.      *)
(***************************************************************************)
EXTENDS Integers, Sequences, FiniteSets, TLC

\* ------------------------------------------------------------ bounds
MaxTime == 2
MaxTasks == 1
MaxTicks == 2
MaxChats == 2
MaxReg == 2
MaxRestarts == 1
MaxStored == 2
MaxLevel == 4

\* ------------------------------------------------------------ constants
\* const twoMinsLater = new Date(now.getTime() + 2 * 60 * 1000)
WindowMinutes == 2

Owners == {"u1", "u2"}
TEMP_NO_UID == "TEMP_NO_UID"
NoPayload == "none"

Times == 0 .. MaxTime
\* deadlines a request body can carry: instants up to one minute past the clock's end
Deadlines == 0 .. MaxTime + 1
TaskIds == 1 .. MaxTasks
TickIds == 1 .. MaxTicks
Chats == 1 .. MaxChats

\* A chat id as a JavaScript value: the number Telegram assigns to the chat,
\* held either as a string ("str") or as a number ("num").  === tells the two
\* apart; the Telegram API addresses the same chat with either.
ChatIdValues == [n : Chats, ty : {"str", "num"}]

\* ctx.chat.id.toString()
ToStringId(n) == [n |-> n, ty |-> "str"]

VARIABLES
  now,            \* wall clock, in minutes
  dbInstance,     \* TRUE once connectDB has set dbInstance
  users,          \* users collection: sequence of uids, insertion order
  tasks,          \* tasks collection: sequence of task documents, insertion order
  nextId,         \* number of ObjectIds handed out so far
  chatIds,        \* chatIds.json: sequence of [chatId, uid]
  notifiedTasks,  \* global.notifiedTasks: sequence of task ids
  tick,           \* tick[k]: the k-th concurrent run of triggerReminderCheck
  restarts,       \* number of process restarts so far
  \* ---- observation (history) variables; no action reads them in a guard
  dispatched,     \* every call of sendTelegramNotification so far:
                  \* [id, deadline, life (restarts before it), noop (no chat id found)]
  boundTo,        \* boundTo[n]: the owner the latest accepted bind of chat n
                  \* carried, "none" before any and after a /stop from n
  \* ---- what the last step did (empty when the last step did none of it)
  lastEvals,      \* the task evaluations the step made
  lastDone,       \* the call of sendTelegramNotification that returned in the step
  lastBind,       \* the bind request with a genuine owner id handled in the step
  lastCmd,        \* the registry command handled in the step: [cmd, n, chatId,
                  \* payload, before (chatIds.json before the step), wrote
                  \* (the handler wrote the file)]
  lastCalls,      \* the requests to a calendar service the step issued
  lastFault,      \* the failure a run of the scanner met in the step: [kind, k]
  lastReq,        \* the request answered in the step, where its requester is
                  \* followed: [op, user (req.user.uid), uid (of the body), id,
                  \* body, status]
  pressureSettings  \* pressureSettings[u]: the pressureSettings of the users
                  \* document of u, <<>> if the document has none

vars == <<now, dbInstance, users, tasks, nextId, chatIds, notifiedTasks, tick,
          restarts, dispatched, boundTo, lastEvals, lastDone, lastBind, lastCmd,
          lastCalls, lastFault, lastReq, pressureSettings>>

storeVars == <<users, tasks, nextId, pressureSettings>>
scanVars == <<notifiedTasks, tick, dispatched>>
regVars == <<chatIds, boundTo>>

\* the step evaluates no task, returns from no dispatch, handles no bind and
\* no registry command
Silent == lastEvals' = {} /\ lastDone' = <<>> /\ lastBind' = <<>> /\ lastCmd' = <<>>

\* and it issues no calendar request and meets no failure
Quiet == Silent /\ lastCalls' = <<>> /\ lastFault' = <<>> /\ lastReq' = <<>>

\* ------------------------------------------------------------ helpers
Range(s) == {s[i] : i \in 1 .. Len(s)}

Includes(s, x) == \E i \in 1 .. Len(s) : s[i] = x



\* ------------------------------------------------------------ registry
\* loadChatIds(): JSON.parse(fs.readFileSync(CHAT_IDS_FILE)), read anew by
\* every handler of telegram.js
LoadChatIdsAtStartup == <<>>

LoadChatIds == chatIds

\* getChatIds(): the same file, read anew by every call in the server
GetChatIds == chatIds

\* what a handler leaves in lastCmd
Cmd(cmd, chatId, payload, after) ==
  <<[cmd |-> cmd, n |-> chatId.n, chatId |-> chatId, payload |-> payload,
     before |-> chatIds, wrote |-> after # chatIds]>>

\* chatIds.find((c) => c.chatId === chatId): index of the first match, 0 if none
FindChat(reg, cid) ==
  IF \E i \in 1 .. Len(reg) : reg[i].chatId = cid
  THEN CHOOSE i \in 1 .. Len(reg) :
         /\ reg[i].chatId = cid
         /\ \A j \in 1 .. i - 1 : reg[j].chatId # cid
  ELSE 0

\* /start that sets the entry's uid to whatever the command carries, the
\* sentinel included
StartRegistryOverwrite(reg, n, payload) ==
  LET chatId == ToStringId(n)
      i == FindChat(reg, chatId)
      uid == IF payload # NoPayload THEN payload ELSE TEMP_NO_UID
  IN IF i # 0
     THEN [reg EXCEPT ![i].uid = uid]
     ELSE Append(reg, [chatId |-> chatId, uid |-> uid])

\* /start without the lookup of an existing entry: always chatIds.push
StartRegistryNoLookup(reg, n, payload) ==
  Append(reg, [chatId |-> ToStringId(n),
               uid |-> IF payload # NoPayload THEN payload ELSE TEMP_NO_UID])

\* bot.start: the registry after /start from chat n with payload uid
StartRegistry(reg, n, payload) ==
  LET chatId == ToStringId(n)
      i == FindChat(reg, chatId)
  IN IF i # 0
     THEN IF payload # NoPayload /\ reg[i].uid # payload
          THEN [reg EXCEPT ![i].uid = payload]
          ELSE reg
     ELSE Append(reg, [chatId |-> chatId,
                       uid |-> IF payload # NoPayload THEN payload ELSE TEMP_NO_UID])

\* bot.start: the reply, "Updated!", "Already connected!" or "Connected to
\* Overlax!"
StartReply(reg, n, payload) ==
  LET i == FindChat(reg, ToStringId(n))
  IN IF i # 0
     THEN IF payload # NoPayload /\ reg[i].uid # payload
          THEN "updated"
          ELSE "already"
     ELSE "connected"

\* bot.command("stop"): chatIds.filter((c) => c.chatId !== chatId)
StopRegistry(reg, n) ==
  LET chatId == ToStringId(n)
      Keep(c) == c.chatId # chatId
  IN SelectSeq(reg, Keep)

\* POST /api/connect-telegram: the registry after the call (unchanged on 400)
ConnectRegistry(reg, uid, chatId) ==
  IF \E i \in 1 .. Len(reg) : reg[i].chatId = chatId
  THEN reg
  ELSE Append(reg, [chatId |-> chatId, uid |-> uid])

\* /start from chat n, payload an owner id or none.  The bot is launched by
\* connectDB (require("./telegram")), so it answers only once the database is up.
BotStart(n, payload) ==
  /\ dbInstance
  /\ Len(StartRegistry(LoadChatIds, n, payload)) <= MaxReg
  /\ chatIds' = StartRegistry(LoadChatIds, n, payload)
  /\ lastCmd' = Cmd("start", ToStringId(n), payload, chatIds')
  /\ boundTo' = IF payload # NoPayload THEN [boundTo EXCEPT ![n] = payload]
                ELSE boundTo
  /\ lastBind' = IF payload # NoPayload
                 THEN <<[chatId |-> ToStringId(n), uid |-> payload]>>
                 ELSE <<>>
  /\ lastEvals' = {} /\ lastDone' = <<>>
  /\ lastCalls' = <<>> /\ lastFault' = <<>> /\ lastReq' = <<>>
  /\ UNCHANGED <<now, dbInstance, restarts, storeVars, scanVars>>

\* /start from chat n while chatIds.json cannot be written: saveChatIds
\* catches the error of fs.writeFileSync and logs it, and the handler replies
\* as after a write
BotStartWriteFails(n, payload) ==
  /\ dbInstance
  /\ StartRegistry(LoadChatIds, n, payload) # LoadChatIds
  /\ UNCHANGED chatIds
  /\ lastCmd' = Cmd("start", ToStringId(n), payload, chatIds')
  /\ boundTo' = IF payload # NoPayload THEN [boundTo EXCEPT ![n] = payload]
                ELSE boundTo
  /\ lastBind' = IF payload # NoPayload
                 THEN <<[chatId |-> ToStringId(n), uid |-> payload]>>
                 ELSE <<>>
  /\ lastEvals' = {} /\ lastDone' = <<>>
  /\ lastCalls' = <<>> /\ lastFault' = <<>> /\ lastReq' = <<>>
  /\ UNCHANGED <<now, dbInstance, restarts, storeVars, scanVars>>

\* /stop from chat n
BotStop(n) ==
  /\ dbInstance
  /\ chatIds' = StopRegistry(LoadChatIds, n)
  /\ boundTo' = [boundTo EXCEPT ![n] = "none"]
  /\ lastCmd' = Cmd("stop", ToStringId(n), NoPayload, chatIds')
  /\ lastEvals' = {} /\ lastDone' = <<>> /\ lastBind' = <<>>
  /\ lastCalls' = <<>> /\ lastFault' = <<>> /\ lastReq' = <<>>
  /\ UNCHANGED <<now, dbInstance, restarts, storeVars, scanVars>>

\* POST /api/connect-telegram by the authenticated user uid, body { chatId }
ConnectTelegram(uid, chatId) ==
  /\ Len(ConnectRegistry(GetChatIds, uid, chatId)) <= MaxReg
  /\ chatIds' = ConnectRegistry(GetChatIds, uid, chatId)
  /\ lastCmd' = Cmd("connect", chatId, uid, chatIds')
  /\ boundTo' = IF chatIds' # chatIds THEN [boundTo EXCEPT ![chatId.n] = uid]
                ELSE boundTo
  /\ lastBind' = <<[chatId |-> chatId, uid |-> uid]>>
  /\ lastEvals' = {} /\ lastDone' = <<>>
  /\ lastCalls' = <<>> /\ lastFault' = <<>> /\ lastReq' = <<>>
  /\ UNCHANGED <<now, dbInstance, restarts, storeVars, scanVars>>


\* ------------------------------------------------------------ task store
\* A stored deadline is the instant its string denotes, Null, or Garbage: a
\* string new Date() cannot parse ("abcT09:00:00").
Null == 0 - 2
Epoch == 0 - 1
Absent == 0 - 3
Garbage == 0 - 4
\* the time value of an Invalid Date
NaN == 0 - 5

\* deadlines a request body can carry, unparsable ones included
BodyDeadlines == Deadlines \cup {Garbage}

\* a parse that takes a missing or unparsable deadline for an instant of the
\* first window
ParseDeadlineLenient(d) == IF d \in {Null, Garbage} THEN WindowMinutes ELSE d

\* new Date(task.deadline).getTime(): new Date(null) is the epoch, which lies
\* before every instant of the model's clock; an unparsable string gives an
\* Invalid Date
ParseDeadline(d) == IF d = Null THEN Epoch ELSE IF d = Garbage THEN NaN ELSE d

\* POST /api/tasks: finalDeadline of a body deadline that carries a time of day
CreateDeadline(d) == d

\* PATCH /api/tasks/:id: finalDeadline; an omitted deadline stays undefined and
\* $set stores it as null
PatchDeadline(d) == IF d = Absent THEN Null ELSE d

\* A date-only body deadline ("2025-01-02", no "T") names a day.  The instants
\* are counted in minutes, day 0 beginning at instant 0, on a server whose local
\* time is UTC.
Days == 1 .. 2

\* POST /api/tasks: finalDeadline += "T09:00:00", 09:00 local time of the day
CreateDateOnly(day) == day * 24 * 60 + 9 * 60

\* PATCH /api/tasks/:id: deadline + "T00:00:00.000Z", midnight UTC of the day
PatchDateOnly(day) == day * 24 * 60

\* The externalEventId of a document without the field
NoEvent == "none"

\* event ids found on documents that another writer of the collection stored
EventIds == {"e1"}

\* an insert that stores an event id although no calendar insert was made
CreateEventIdUnconditional == "e2"

\* POST /api/tasks: the document passed to insertOne has no externalEventId
CreateEventId == NoEvent

\* PATCH /api/tasks/:id: $set names title, category, deadline, file and
\* updatedAt; externalEventId is left as stored
PatchEventId(e) == e

\* the requests to a calendar service that POST /api/tasks, PATCH /api/tasks/:id
\* and DELETE /api/tasks/:id issue: the handlers contain none
CreateCalendarCalls(uid) == <<>>

\* an update that asks the calendar for an event when the task has none
PatchCalendarCallsBackfill(task) ==
  IF task.externalEventId = NoEvent
  THEN <<[op |-> "insert", id |-> task.id]>>
  ELSE <<[op |-> "update", id |-> task.externalEventId]>>

PatchCalendarCalls(task) == <<>>

DeleteCalendarCalls(task) == <<>>

\* a users document without pressureSettings
NoSettings == <<>>

\* what a request leaves in lastReq
Req(op, user, uid, id, body, status) ==
  <<[op |-> op, user |-> user, uid |-> uid, id |-> id, body |-> body,
     status |-> status]>>

\* a lookup by _id alone
FindTaskAnyOwner(id, uid) ==
  IF \E i \in 1 .. Len(tasks) : tasks[i].id = id
  THEN CHOOSE i \in 1 .. Len(tasks) : tasks[i].id = id
  ELSE 0

\* tasks().findOne({ _id, uid }): index of the document, 0 if none
FindTask(id, uid) ==
  IF \E i \in 1 .. Len(tasks) : tasks[i].id = id /\ tasks[i].uid = uid
  THEN CHOOSE i \in 1 .. Len(tasks) : tasks[i].id = id /\ tasks[i].uid = uid
  ELSE 0

\* if (!currentTask) return res.status(404): the status of a PATCH or DELETE
TaskStatus(id, uid) == IF FindTask(id, uid) = 0 THEN 404 ELSE 200

\* POST /api/user/profile: upsert on uid
PostUserProfile(uid) ==
  /\ dbInstance
  /\ users' = IF Includes(users, uid) THEN users ELSE Append(users, uid)
  /\ Quiet
  /\ UNCHANGED <<now, dbInstance, restarts, tasks, nextId, pressureSettings, scanVars,
                 regVars>>

\* POST /api/tasks: insertOne of the document with the deadline as stored
InsertTask(uid, stored) ==
  /\ dbInstance
  /\ nextId < MaxTasks
  /\ nextId' = nextId + 1
  /\ tasks' = Append(tasks, [id |-> nextId + 1, uid |-> uid,
                              deadline |-> stored,
                              hasCompleted |-> TRUE, completed |-> FALSE,
                              externalEventId |-> CreateEventId])
  /\ Silent
  /\ lastCalls' = CreateCalendarCalls(uid)
  /\ lastFault' = <<>>
  /\ UNCHANGED <<now, dbInstance, restarts, users, pressureSettings, scanVars, regVars>>

\* POST /api/tasks with body { uid, title, category, deadline }
CreateTask(uid, d) == InsertTask(uid, CreateDeadline(d)) /\ lastReq' = <<>>

\* POST /api/tasks with a date-only deadline
CreateTaskDateOnly(uid, day) ==
  InsertTask(uid, CreateDateOnly(day)) /\ lastReq' = <<>>

\* POST /api/tasks by the authenticated user, req.user.uid = user, with body
\* { uid, title, category, deadline }: verifyToken sets req.user and the
\* handler reads uid from the body
PostTasks(user, uid, d) ==
  /\ InsertTask(uid, CreateDeadline(d))
  /\ lastReq' = Req("create", user, uid, nextId + 1, d, 200)

\* The thresholds a body of POST /api/pressure-settings can carry: a level, or
\* a value that is not a number (a string, null, a missing field)
Levels == 1 .. MaxLevel

NonNumeric == 0 - 1

\* settings bodies: the ladder low 1, medium 2, high 3, critical 4 with at most
\* one threshold replaced
SettingsBodies ==
  LET V == Levels \cup {NonNumeric}
      Changed(st) == Cardinality({f \in {"low", "medium", "high", "critical"} :
                        st[f] # (CASE f = "low" -> 1 [] f = "medium" -> 2
                                   [] f = "high" -> 3 [] OTHER -> 4)})
  IN {st \in [low : V, medium : V, high : V, critical : V] : Changed(st) <= 1}

\* typeof settings.low !== "number" || ... : every threshold is a number
AllNumbers(st) ==
  /\ st.low # NonNumeric
  /\ st.medium # NonNumeric
  /\ st.high # NonNumeric
  /\ st.critical # NonNumeric

\* an order test that lets equal thresholds pass
AscendingLoose(st) ==
  ~(st.low > st.medium \/ st.medium > st.high \/ st.high > st.critical)

\* settings.low >= settings.medium || settings.medium >= settings.high ||
\* settings.high >= settings.critical, negated
Ascending(st) ==
  ~(st.low >= st.medium \/ st.medium >= st.high \/ st.high >= st.critical)

\* POST /api/pressure-settings: the status of the response
PressureStatus(user, uid, st) ==
  IF user # uid THEN 403
  ELSE IF ~AllNumbers(st) THEN 400
  ELSE IF ~Ascending(st) THEN 400
  ELSE 200

\* POST /api/pressure-settings by the authenticated user, body { uid, settings }:
\* users().updateOne({ uid }, { $set: { pressureSettings } }, { upsert: true })
PostPressureSettings(user, uid, st) ==
  /\ dbInstance
  /\ IF PressureStatus(user, uid, st) = 200
     THEN /\ pressureSettings' = [pressureSettings EXCEPT ![uid] = <<st>>]
          /\ users' = IF Includes(users, uid) THEN users ELSE Append(users, uid)
     ELSE UNCHANGED <<pressureSettings, users>>
  /\ Silent
  /\ lastCalls' = <<>>
  /\ lastFault' = <<>>
  /\ lastReq' = Req("pressure", user, uid, 0, st, PressureStatus(user, uid, st))
  /\ UNCHANGED <<now, dbInstance, restarts, tasks, nextId, scanVars, regVars>>

\* POST /chat of the AI route, the reply carrying [TASK_CREATE]: the document
\* is inserted with status: "pending" and without a completed field; its
\* deadline is a Date or null
ChatCreateTask(uid, d) ==
  /\ dbInstance
  /\ nextId < MaxTasks
  /\ nextId' = nextId + 1
  /\ tasks' = Append(tasks, [id |-> nextId + 1, uid |-> uid, deadline |-> d,
                              hasCompleted |-> FALSE, completed |-> FALSE,
                              externalEventId |-> NoEvent])
  /\ Quiet
  /\ UNCHANGED <<now, dbInstance, restarts, users, pressureSettings, scanVars, regVars>>

\* PATCH /api/tasks/:id: findOne({ _id, uid }), 404 if none, else updateOne
\* with the deadline as stored
UpdateTask(uid, id, stored) ==
  /\ dbInstance
  /\ LET i == FindTask(id, uid)
     IN IF i = 0
        THEN UNCHANGED tasks /\ lastCalls' = <<>>
        ELSE /\ tasks' = [tasks EXCEPT
                            ![i].deadline = stored,
                            ![i].externalEventId = PatchEventId(@)]
             /\ lastCalls' = PatchCalendarCalls(tasks[i])
  /\ Silent
  /\ lastFault' = <<>>
  /\ UNCHANGED <<now, dbInstance, restarts, users, nextId, pressureSettings, scanVars,
                 regVars>>

\* PATCH /api/tasks/:id by the authenticated user uid
PatchTask(uid, id, d) == UpdateTask(uid, id, PatchDeadline(d)) /\ lastReq' = <<>>

\* PATCH /api/tasks/:id with a date-only deadline
PatchTaskDateOnly(uid, id, day) ==
  UpdateTask(uid, id, PatchDateOnly(day)) /\ lastReq' = <<>>

\* the same request, its requester followed
PatchRequest(user, id, d) ==
  /\ UpdateTask(user, id, PatchDeadline(d))
  /\ lastReq' = Req("patch", user, user, id, d, TaskStatus(id, user))

\* DELETE /api/tasks/:id: findOne({ _id, uid }), 404 if none, else deleteOne
RemoveTask(uid, id) ==
  /\ dbInstance
  /\ LET i == FindTask(id, uid)
         Keep(t) == t.id # id
     IN IF i = 0
        THEN UNCHANGED tasks /\ lastCalls' = <<>>
        ELSE /\ tasks' = SelectSeq(tasks, Keep)
             /\ lastCalls' = DeleteCalendarCalls(tasks[i])
  /\ Silent
  /\ lastFault' = <<>>
  /\ UNCHANGED <<now, dbInstance, restarts, users, nextId, pressureSettings, scanVars,
                 regVars>>

\* DELETE /api/tasks/:id by the authenticated user uid
DeleteTask(uid, id) == RemoveTask(uid, id) /\ lastReq' = <<>>

\* the same request, its requester followed
DeleteRequest(user, id) ==
  /\ RemoveTask(user, id)
  /\ lastReq' = Req("delete", user, user, id, Absent, TaskStatus(id, user))


\* ------------------------------------------------------------ scanner
IdleTick == [pc |-> "idle", now |-> 0, us |-> <<>>, ts |-> <<>>, cur |-> <<>>,
             targets |-> <<>>, oks |-> <<>>, disp |-> {}]

\* a run whose rejection leaves triggerReminderCheck: the promise the cron
\* callback awaits rejects, unhandled
ThrownTick == [IdleTick EXCEPT !.pc = "thrown"]

\* catch (err) { console.error("Reminder check error:", err.message); }: the
\* run returns
CaughtTick == IdleTick

\* getChatIds() when chatIds.json cannot be read or parsed: the catch logs and
\* the function returns []
GetChatIdsUnreadable == <<>>

\* what a failure leaves in lastFault
Fault(kind, k) == <<[kind |-> kind, k |-> k]>>

\* the window with its lower bound closed: deadline >= now
IsInWindowClosed(deadline, tnow) ==
  deadline # NaN /\ deadline >= tnow /\ deadline <= tnow + WindowMinutes

\* the window without its lower bound: every deadline up to now + 2 minutes
IsInWindowBackward(deadline, tnow) ==
  deadline # NaN /\ deadline <= tnow + WindowMinutes

\* const isInWindow = deadline > now && deadline <= twoMinsLater; every
\* comparison with an Invalid Date is false
IsInWindow(deadline, tnow) ==
  deadline # NaN /\ deadline > tnow /\ deadline <= tnow + WindowMinutes

\* const notAlreadySent = !global.notifiedTasks.includes(taskId)
NotAlreadySent(led, task) == ~Includes(led, task.id)

\* global.notifiedTasks.push(taskId)
MarkNotified(led, task) == Append(led, task.id)

\* a loop that pushes the task id before it awaits the dispatch
LedgerMarkedFirst(led, task) == Append(led, task.id)

\* the ledger while await sendTelegramNotification(task, user.uid) is pending:
\* the push is the statement after the await
LedgerWhileDispatching(led, task) == led

\* sendTelegramNotification: chatIds.filter((c) => c.uid === taskUid).map((c) => c.chatId)
UserChatIds(reg, taskUid) ==
  LET Mine(c) == c.uid = taskUid
      mine == SelectSeq(reg, Mine)
  IN [i \in 1 .. Len(mine) |-> mine[i].chatId]

\* the loop without its try/catch around the send: a failed send ends it
SendsLeftUntilFailure(targets, oks) ==
  IF \E i \in 1 .. Len(oks) : ~oks[i]
  THEN <<>>
  ELSE SubSeq(targets, Len(oks) + 1, Len(targets))

\* the for loop over userChatIds: the chat ids still to be sent to after the
\* sends whose outcomes are oks (a failed send is caught and logged)
SendsLeft(targets, oks) == SubSeq(targets, Len(oks) + 1, Len(targets))

\* tasks().find({ uid: user.uid, completed: false }).toArray(): a document
\* without a completed field does not match completed: false
UserTasks(uid) ==
  LET Mine(t) == t.uid = uid /\ t.hasCompleted /\ t.completed = FALSE
  IN SelectSeq(tasks, Mine)

\* src/index.js: tasks().find({ uid: user.uid }).toArray()
IndexUserTasks(uid) ==
  LET Mine(t) == t.uid = uid
  IN SelectSeq(tasks, Mine)

\* The synchronous part of the loops of triggerReminderCheck: from the current
\* position, evaluate tasks until a send has to be awaited, the next user's
\* task query has to be awaited, or the tick is over.  S carries the tick and
\* the variables the block writes.
RECURSIVE Scan(_)
Scan(S) ==
  LET t == S.t
  IN IF t.ts = <<>>
     THEN IF Len(t.us) <= 1
          THEN [S EXCEPT !.t = IdleTick]
          ELSE [S EXCEPT !.t.us = Tail(@), !.t.pc = "tasks"]
     ELSE
       LET task == Head(t.ts)
           deadline == ParseDeadline(task.deadline)
           isInWindow == IsInWindow(deadline, t.now)
           notAlreadySent == NotAlreadySent(S.led, task)
           targets == UserChatIds(IF S.unreadable THEN GetChatIdsUnreadable
                                  ELSE GetChatIds, Head(t.us))
           ev == [id |-> task.id, deadline |-> task.deadline, now |-> t.now,
                  uid |-> Head(t.us),
                  completed |-> task.hasCompleted /\ task.completed,
                  had |-> Includes(S.led, task.id),
                  match |-> isInWindow /\ notAlreadySent,
                  targets |-> IF isInWindow /\ notAlreadySent THEN targets ELSE <<>>,
                  prior |-> {x \in S.disp : x.id = task.id
                                              /\ x.deadline = task.deadline}]
           S0 == [S EXCEPT !.evals = @ \cup {ev}, !.t.ts = Tail(@)]
       IN IF isInWindow /\ notAlreadySent
          THEN
            LET S1 == [S0 EXCEPT
                         !.disp = @ \cup {[id |-> task.id, deadline |-> task.deadline,
                                           life |-> restarts,
                                           noop |-> targets = <<>>]},
                         !.t.disp = @ \cup {task.id},
                         !.fault = IF S.unreadable THEN <<"registry">> ELSE @]
            IN IF targets = <<>>
               THEN Scan([S1 EXCEPT
                            !.led = MarkNotified(@, task),
                            !.done = <<[id |-> task.id, targets |-> <<>>,
                                        oks |-> <<>>]>>])
               ELSE [S1 EXCEPT
                       !.led = LedgerWhileDispatching(@, task),
                       !.t.pc = "send", !.t.cur = <<task>>,
                       !.t.targets = targets, !.t.oks = <<>>]
          ELSE Scan(S0)

\* unreadable: the reads of chatIds.json in the block fail; fault: the kinds
\* of failure the block met
BlockState(t) ==
  [t |-> t, led |-> notifiedTasks, disp |-> dispatched, evals |-> {}, done |-> <<>>,
   unreadable |-> FALSE, fault |-> <<>>]

Commit(k, S) ==
  /\ tick' = [tick EXCEPT ![k] = S.t]
  /\ notifiedTasks' = S.led
  /\ dispatched' = S.disp
  /\ lastEvals' = S.evals
  /\ lastDone' = S.done
  /\ lastBind' = <<>>
  /\ lastCmd' = <<>>
  /\ lastCalls' = <<>>
  /\ lastFault' = [i \in 1 .. Len(S.fault) |-> [kind |-> S.fault[i], k |-> k]]
  /\ lastReq' = <<>>

\* a run that goes on to its first query whether or not the database is up
StartTickUnguarded(t, tnow) == [IdleTick EXCEPT !.pc = "users", !.now = tnow]

\* if (!dbInstance) { console.log("DB not ready, skipping reminder check");
\* return; } const now = new Date(); ... await users().find({})
StartTick(t, tnow) ==
  IF dbInstance THEN [IdleTick EXCEPT !.pc = "users", !.now = tnow] ELSE t

\* triggerReminderCheck up to its first await: if (!dbInstance) return;
\* now = new Date(); users().find({}) is issued.  A new run takes the lowest
\* free slot: the slots only name the runs in flight.
TriggerReminderCheck(k) ==
  /\ tick[k].pc = "idle"
  /\ \A j \in TickIds : j < k => tick[j].pc # "idle"
  /\ tick' = [tick EXCEPT ![k] = StartTick(@, now)]
  /\ Silent
  /\ lastCalls' = <<>>
  /\ lastReq' = <<>>
  /\ lastFault' = IF dbInstance THEN <<>> ELSE Fault("nodb", k)
  /\ UNCHANGED <<now, dbInstance, restarts, storeVars, regVars, notifiedTasks,
                 dispatched>>

\* cron.schedule("* * * * *", ...)
CronTick(k) == TriggerReminderCheck(k)

\* GET /api/reminder-ping
ReminderPing(k) == TriggerReminderCheck(k)

\* await users().find({}).toArray() returns
UsersResult(k) ==
  /\ tick[k].pc = "users"
  /\ tick' = [tick EXCEPT ![k] =
                IF users = <<>> THEN IdleTick
                ELSE [@ EXCEPT !.pc = "tasks", !.us = users]]
  /\ Quiet
  /\ UNCHANGED <<now, dbInstance, restarts, storeVars, regVars, notifiedTasks,
                 dispatched>>

\* await tasks().find({ uid, completed: false }).toArray() returns for the
\* current user; the block runs to the next await
TasksResult(k) ==
  /\ tick[k].pc = "tasks"
  /\ Commit(k, Scan(BlockState([tick[k] EXCEPT !.ts = UserTasks(Head(tick[k].us))])))
  /\ UNCHANGED <<now, dbInstance, restarts, storeVars, regVars>>

\* src/index.js: await tasks().find({ uid }).toArray() returns for the current
\* user; the loop over the tasks is the same
IndexTasksResult(k) ==
  /\ tick[k].pc = "tasks"
  /\ Commit(k, Scan(BlockState([tick[k] EXCEPT
                                  !.ts = IndexUserTasks(Head(tick[k].us))])))
  /\ UNCHANGED <<now, dbInstance, restarts, storeVars, regVars>>

\* the same step while chatIds.json cannot be read or parsed
TasksResultUnreadable(k) ==
  /\ tick[k].pc = "tasks"
  /\ Commit(k, Scan([BlockState([tick[k] EXCEPT !.ts = UserTasks(Head(tick[k].us))])
                       EXCEPT !.unreadable = TRUE]))
  /\ UNCHANGED <<now, dbInstance, restarts, storeVars, regVars>>

\* a query of the tick rejects: the catch of triggerReminderCheck ends the tick
QueryFails(k) ==
  /\ tick[k].pc \in {"users", "tasks"}
  /\ tick' = [tick EXCEPT ![k] = CaughtTick]
  /\ Silent
  /\ lastCalls' = <<>>
  /\ lastFault' = Fault("query", k)
  /\ lastReq' = <<>>
  /\ UNCHANGED <<now, dbInstance, restarts, storeVars, regVars, notifiedTasks,
                 dispatched>>

\* await axios.post(...sendMessage) settles for the current chat id: ok, or
\* rejected and caught.  After the last chat id the dispatch returns, the task
\* id is pushed on the ledger and the block runs on.
SendResult(k, ok) ==
  /\ tick[k].pc = "send"
  /\ LET t == tick[k]
         oks == Append(t.oks, ok)
         task == Head(t.cur)
     IN IF SendsLeft(t.targets, oks) # <<>>
        THEN /\ tick' = [tick EXCEPT ![k].oks = oks]
             /\ Silent
             /\ lastCalls' = <<>>
             /\ lastFault' = IF ok THEN <<>> ELSE Fault("send", k)
             /\ lastReq' = <<>>
             /\ UNCHANGED <<notifiedTasks, dispatched>>
        ELSE LET S == BlockState([t EXCEPT !.pc = "tasks", !.cur = <<>>,
                                           !.targets = <<>>, !.oks = <<>>])
                 led == MarkNotified(notifiedTasks, task)
             IN Commit(k, Scan([S EXCEPT
                                  !.led = led,
                                  !.fault = IF ok THEN <<>> ELSE <<"send">>,
                                  !.done = <<[id |-> task.id, targets |-> t.targets,
                                              oks |-> oks]>>]))
  /\ UNCHANGED <<now, dbInstance, restarts, storeVars, regVars>>

\* ------------------------------------------------------------ process
\* connectDB: dbInstance = client.db("overlax")
ConnectDB ==
  /\ ~dbInstance
  /\ dbInstance' = TRUE
  /\ Quiet
  /\ UNCHANGED <<now, restarts, storeVars, scanVars, regVars>>

\* The process stops and starts again: module scope is evaluated anew
\* (global.notifiedTasks = [], dbInstance = null, no tick in flight); MongoDB
\* and chatIds.json keep their contents.
Restart ==
  /\ restarts < MaxRestarts
  /\ restarts' = restarts + 1
  /\ dbInstance' = FALSE
  /\ notifiedTasks' = <<>>
  /\ tick' = [k \in TickIds |-> IdleTick]
  /\ Quiet
  /\ UNCHANGED <<now, storeVars, regVars, dispatched>>

\* one minute passes
AdvanceClock ==
  /\ now < MaxTime
  /\ now' = now + 1
  /\ Quiet
  /\ UNCHANGED <<dbInstance, restarts, storeVars, scanVars, regVars>>

\* A fresh process: nothing in memory
FreshProcess ==
  /\ now = 0
  /\ dbInstance = FALSE
  /\ notifiedTasks = <<>>
  /\ tick = [k \in TickIds |-> IdleTick]
  /\ restarts = 0
  /\ dispatched = {}
  /\ lastEvals = {}
  /\ lastDone = <<>>
  /\ lastBind = <<>>
  /\ lastCmd = <<>>
  /\ lastCalls = <<>>
  /\ lastFault = <<>>
  /\ lastReq = <<>>

\* chatIds.json as telegram.js creates it: []
EmptyRegistry ==
  /\ chatIds = <<>>
  /\ boundTo = [n \in Chats |-> "none"]

\* The first start: empty collections, chatIds.json created as []
Init ==
  /\ FreshProcess
  /\ users = <<>>
  /\ pressureSettings = [u \in Owners |-> NoSettings]
  /\ tasks = <<>>
  /\ nextId = 0
  /\ EmptyRegistry

StoreNext ==
  \/ \E u \in Owners : PostUserProfile(u)
  \/ \E u \in Owners, d \in Deadlines : CreateTask(u, d)
  \/ \E u \in Owners, id \in TaskIds, d \in Deadlines \cup {Absent} : PatchTask(u, id, d)
  \/ \E u \in Owners, id \in TaskIds : DeleteTask(u, id)

RegistryNext ==
  \/ \E n \in Chats, p \in Owners \cup {NoPayload} : BotStart(n, p)
  \/ \E n \in Chats : BotStop(n)
  \/ \E u \in Owners, c \in ChatIdValues : ConnectTelegram(u, c)

ScannerNext ==
  \/ \E k \in TickIds : CronTick(k)
  \/ \E k \in TickIds : ReminderPing(k)
  \/ \E k \in TickIds : UsersResult(k)
  \/ \E k \in TickIds : TasksResult(k)
  \/ \E k \in TickIds : QueryFails(k)
  \/ \E k \in TickIds, ok \in BOOLEAN : SendResult(k, ok)

ProcessNext ==
  \/ AdvanceClock
  \/ ConnectDB
  \/ Restart

Next ==
  \/ ProcessNext
  \/ StoreNext
  \/ \E u \in Owners, d \in Deadlines \cup {Null} : ChatCreateTask(u, d)
  \/ RegistryNext
  \/ ScannerNext

Spec == Init /\ [][Next]_vars

\* The scanner and the task routes over a chatIds.json in which owner u1 has
\* linked two chats by /start <uid> and owner u2 none
Entry(n, uid) == [chatId |-> ToStringId(n), uid |-> uid]

ScanRegistry == <<Entry(1, "u1"), Entry(2, "u1")>>

ScanInit ==
  /\ FreshProcess
  /\ users = <<>>
  /\ pressureSettings = [u \in Owners |-> NoSettings]
  /\ tasks = <<>>
  /\ nextId = 0
  /\ chatIds = ScanRegistry
  /\ boundTo = [n \in Chats |-> IF n \in {1, 2} THEN "u1" ELSE "none"]

ScanNext ==
  \/ ProcessNext
  \/ StoreNext
  \/ ScannerNext

ScanSpec == ScanInit /\ [][ScanNext]_vars


\* The registry writers and the scanner over a store in which owner u1 has a
\* profile and one task, due at the end of the first window
RegInit ==
  /\ FreshProcess
  /\ users = <<"u1">>
  /\ pressureSettings = [u \in Owners |-> NoSettings]
  /\ tasks = <<[id |-> 1, uid |-> "u1", deadline |-> WindowMinutes,
                hasCompleted |-> TRUE, completed |-> FALSE,
                externalEventId |-> NoEvent]>>
  /\ nextId = 1
  /\ EmptyRegistry

RegNext ==
  \/ ConnectDB
  \/ RegistryNext
  \/ ScannerNext

RegSpec == RegInit /\ [][RegNext]_vars


\* The writers of chatIds.json alone: the bot's /start and /stop and
\* POST /api/connect-telegram, in every order, from the first start on.  Every
\* write of the file succeeds.
CmdNext ==
  \/ ConnectDB
  \/ RegistryNext

CmdSpec == Init /\ [][CmdNext]_vars


\* One process life in which no two runs of triggerReminderCheck overlap: both
\* owners have a profile, owner u1 has linked two chats, and every run
\* finishes before the next cron tick or ping starts one.
SeqInit ==
  /\ FreshProcess
  /\ users = <<"u1", "u2">>
  /\ pressureSettings = [u \in Owners |-> NoSettings]
  /\ tasks = <<>>
  /\ nextId = 0
  /\ chatIds = ScanRegistry
  /\ boundTo = [n \in Chats |-> IF n \in {1, 2} THEN "u1" ELSE "none"]

SeqScannerNext ==
  \/ CronTick(1)
  \/ ReminderPing(1)
  \/ UsersResult(1)
  \/ TasksResult(1)
  \/ QueryFails(1)
  \/ \E ok \in BOOLEAN : SendResult(1, ok)

SeqNext ==
  \/ AdvanceClock
  \/ ConnectDB
  \/ \E u \in Owners, d \in Deadlines : CreateTask(u, d)
  \/ \E u \in Owners, id \in TaskIds, d \in Deadlines \cup {Absent} : PatchTask(u, id, d)
  \/ \E u \in Owners, id \in TaskIds : DeleteTask(u, id)
  \/ SeqScannerNext

SeqSpec == SeqInit /\ [][SeqNext]_vars


\* The scanner under its cron schedule, one firing at every minute boundary and
\* no query of a tick failing, over a store and a users collection written
\* during minute 0, before the first firing.
\* cron.schedule("* * * * *", ...): a minute boundary passes and the callback
\* runs triggerReminderCheck up to its first await
CronMinute(k) ==
  /\ now < MaxTime
  /\ tick[k].pc = "idle"
  /\ \A j \in TickIds : j < k => tick[j].pc # "idle"
  /\ now' = now + 1
  /\ tick' = [tick EXCEPT ![k] = StartTick(@, now + 1)]
  /\ Silent
  /\ lastCalls' = <<>>
  /\ lastReq' = <<>>
  /\ lastFault' = IF dbInstance THEN <<>> ELSE Fault("nodb", k)
  /\ UNCHANGED <<dbInstance, restarts, storeVars, regVars, notifiedTasks,
                 dispatched>>

CronNext ==
  \/ ConnectDB
  \/ now = 0 /\ \E u \in Owners : PostUserProfile(u)
  \/ now = 0 /\ \E u \in Owners, d \in BodyDeadlines : CreateTask(u, d)
  \/ now = 0 /\ \E u \in Owners, d \in Deadlines \cup {Null} : ChatCreateTask(u, d)
  \/ \E k \in TickIds : CronMinute(k)
  \/ \E k \in TickIds : UsersResult(k)
  \/ \E k \in TickIds : TasksResult(k)
  \/ \E k \in TickIds, ok \in BOOLEAN : SendResult(k, ok)

CronSpec == ScanInit /\ [][CronNext]_vars


\* A tasks collection as the server finds it: up to MaxStored documents of the
\* task routes, with a missing, an unparsable or a parsable deadline, some
\* marked completed by another writer of the collection.
StoredShapes ==
  [uid : Owners, deadline : {Null, Garbage, WindowMinutes}, completed : BOOLEAN]

StoredTasks ==
  UNION {{[i \in 1 .. n |-> [id |-> i, uid |-> s[i].uid,
                              deadline |-> s[i].deadline,
                              hasCompleted |-> TRUE,
                              completed |-> s[i].completed,
                              externalEventId |-> NoEvent]] :
            s \in [1 .. n -> StoredShapes]} : n \in 0 .. MaxStored}

\* The scanner alone, its runs one after another, over such a collection
SweepInit ==
  /\ FreshProcess
  /\ users = <<"u1", "u2">>
  /\ pressureSettings = [u \in Owners |-> NoSettings]
  /\ tasks \in StoredTasks
  /\ nextId = Len(tasks)
  /\ chatIds = ScanRegistry
  /\ boundTo = [n \in Chats |-> IF n \in {1, 2} THEN "u1" ELSE "none"]

SweepNext ==
  \/ AdvanceClock
  \/ ConnectDB
  \/ SeqScannerNext

SweepSpec == SweepInit /\ [][SweepNext]_vars


\* The server of src/index.js: the same scanner, started by
\* GET /api/reminder-ping, its task query without the completed filter, over a
\* collection that holds one task of owner u1, completed or not.
IndexInit ==
  /\ FreshProcess
  /\ users = <<"u1">>
  /\ pressureSettings = [u \in Owners |-> NoSettings]
  /\ \E d \in 1 .. MaxTime, c \in BOOLEAN :
       tasks = <<[id |-> 1, uid |-> "u1", deadline |-> d,
                  hasCompleted |-> TRUE, completed |-> c,
                  externalEventId |-> NoEvent]>>
  /\ nextId = 1
  /\ chatIds = ScanRegistry
  /\ boundTo = [n \in Chats |-> IF n \in {1, 2} THEN "u1" ELSE "none"]

IndexNext ==
  \/ AdvanceClock
  \/ ConnectDB
  \/ \E k \in TickIds : ReminderPing(k)
  \/ \E k \in TickIds : UsersResult(k)
  \/ \E k \in TickIds : IndexTasksResult(k)
  \/ \E k \in TickIds : QueryFails(k)
  \/ \E k \in TickIds, ok \in BOOLEAN : SendResult(k, ok)

IndexSpec == IndexInit /\ [][IndexNext]_vars


\* The scanner alone, its runs one after another, over such a collection,
\* with chatIds.json unreadable during some of its steps
FaultNext ==
  \/ SweepNext
  \/ TasksResultUnreadable(1)

FaultSpec == SweepInit /\ [][FaultNext]_vars


\* The task routes and the scanner over a collection that is empty or holds
\* one document carrying an externalEventId, stored by another writer
MirrorInit ==
  /\ FreshProcess
  /\ users = <<"u1", "u2">>
  /\ pressureSettings = [u \in Owners |-> NoSettings]
  /\ tasks \in {<<>>} \cup
              {<<[id |-> 1, uid |-> u, deadline |-> WindowMinutes,
                  hasCompleted |-> TRUE, completed |-> FALSE,
                  externalEventId |-> e]>> : u \in Owners, e \in EventIds}
  /\ nextId = Len(tasks)
  /\ chatIds = ScanRegistry
  /\ boundTo = [n \in Chats |-> IF n \in {1, 2} THEN "u1" ELSE "none"]

\* the requests and the runs of the scanner within the first minute
MirrorNext ==
  \/ ConnectDB
  \/ \E u \in Owners, d \in Deadlines : CreateTask(u, d)
  \/ \E u \in Owners, id \in TaskIds, d \in Deadlines \cup {Absent} : PatchTask(u, id, d)
  \/ \E u \in Owners, id \in TaskIds : DeleteTask(u, id)
  \/ SeqScannerNext

MirrorSpec == MirrorInit /\ [][MirrorNext]_vars


\* The task routes with deadlines with and without a time of day, and the
\* scanner
DateNext ==
  \/ SeqNext
  \/ \E u \in Owners, day \in Days : CreateTaskDateOnly(u, day)
  \/ \E u \in Owners, id \in TaskIds, day \in Days : PatchTaskDateOnly(u, id, day)

DateSpec == SeqInit /\ [][DateNext]_vars


\* The writers of chatIds.json, the file at times not writable
WriteNext ==
  \/ CmdNext
  \/ \E n \in Chats, p \in Owners \cup {NoPayload} : BotStartWriteFails(n, p)

WriteSpec == Init /\ [][WriteNext]_vars


\* The task routes with their requesters followed, and the scanner, within
\* the first minute
AuthNext ==
  \/ ConnectDB
  \/ \E user \in Owners, u \in Owners, d \in Deadlines : PostTasks(user, u, d)
  \/ \E user \in Owners, id \in TaskIds, d \in Deadlines \cup {Absent} :
       PatchRequest(user, id, d)
  \/ \E user \in Owners, id \in TaskIds : DeleteRequest(user, id)
  \/ SeqScannerNext

AuthSpec == SeqInit /\ [][AuthNext]_vars


\* The pressure settings route
PressureNext ==
  \/ ConnectDB
  \/ \E u \in Owners : PostUserProfile(u)
  \/ \E user \in Owners, u \in Owners, st \in SettingsBodies :
       PostPressureSettings(user, u, st)

PressureSpec == Init /\ [][PressureNext]_vars


\* ------------------------------------------------------------ claims
\* the number of chat ids of a dispatch that address chat n
SendsTo(targets, n) == Cardinality({i \in 1 .. Len(targets) : targets[i].n = n})

\* C1: a task is dispatched at most once per deadline value: no tick calls
\* sendTelegramNotification for a task that an earlier call already handled
\* with the same deadline.
C1_AtMostOncePerDeadline ==
  \A e \in lastEvals : e.match => e.prior = {}

\* C2: two ticks in flight at the same time never both dispatch the same task.
C2_NoDispatchByBothTicks ==
  \A j \in TickIds, k \in TickIds :
    j # k => tick[j].disp \cap tick[k].disp = {}

\* C3: a task whose deadline was edited to a value never notified is eligible
\* again: a tick that finds the task inside its window, with no dispatch made
\* for that deadline value, dispatches it.
C3_EditedDeadlineEligible ==
  \A e \in lastEvals :
    (e.now < e.deadline /\ e.deadline <= e.now + WindowMinutes /\ e.prior = {})
      => e.match

\* C4: a task not yet in the ledger is dispatched by a tick taken at now exactly
\* when now < deadline <= now + 2 minutes: deadline = now + 2 is included,
\* deadline = now is excluded.
C4_WindowHalfOpen ==
  \A e \in lastEvals :
    (~e.had /\ e.deadline # Null)
      => (e.match <=> (e.now < e.deadline /\ e.deadline <= e.now + 2))

C4_Witness ==
  \E e \in lastEvals : e.match /\ e.deadline = e.now + 2

\* C5: a restart between two ticks causes no second dispatch: no tick
\* dispatches a task that a tick of an earlier process life dispatched with
\* the same deadline.
C5_RestartNoDuplicate ==
  \A e \in lastEvals :
    e.match => \A x \in e.prior : x.life = restarts

\* C6: a dispatch that finds no chat id sends nothing and the task id is on
\* the ledger when it returns, and no later tick dispatches that task again.
C6_NoRetryAfterNoop ==
  /\ lastDone # <<>> /\ lastDone[1].targets = <<>>
       => lastDone[1].oks = <<>> /\ Includes(notifiedTasks, lastDone[1].id)
  /\ \A e \in lastEvals : e.match => \A x \in e.prior : ~x.noop

\* C7: when a dispatch returns, a send has been attempted to every chat id of
\* the owner, whichever sends failed, and the task id is on the ledger.
C7_FailedSendIsolated ==
  lastDone # <<>>
    => /\ Len(lastDone[1].oks) = Len(lastDone[1].targets)
       /\ Includes(notifiedTasks, lastDone[1].id)

C7_Witness ==
  /\ lastDone # <<>>
  /\ lastDone[1].oks = <<FALSE, TRUE>>

\* C8: a dispatch for a task of owner U sends exactly one message to every
\* chat whose latest accepted bind carried U, and none to a chat whose latest
\* registry command was /stop.
C8_OneMessagePerBoundChat ==
  \A e \in lastEvals :
    e.match =>
      \A n \in Chats :
        /\ boundTo[n] = e.uid => SendsTo(e.targets, n) = 1
        /\ boundTo[n] = "none" => SendsTo(e.targets, n) = 0

\* C9: chatIds.json holds at most one entry per chat.
C9_OneEntryPerChat ==
  \A i \in 1 .. Len(chatIds), j \in 1 .. Len(chatIds) :
    chatIds[i].chatId.n = chatIds[j].chatId.n => i = j

\* C10: after a bind request that carries a genuine owner id, from /start or
\* from POST /api/connect-telegram, the registry maps the chat id to that owner.
C10_LastWriteWins ==
  lastBind # <<>>
    => \E i \in 1 .. Len(chatIds) :
         /\ chatIds[i].chatId = lastBind[1].chatId
         /\ chatIds[i].uid = lastBind[1].uid

\* C11: a /start without owner id from a chat with no entry stores the chat
\* with the owner TEMP_NO_UID; while a TEMP_NO_UID entry is stored for a chat
\* no dispatch sends to that chat; a later /start <U> from the chat replaces
\* the sentinel by U.
C11_SentinelUntilLinked ==
  /\ (/\ lastCmd # <<>> /\ lastCmd[1].cmd = "start"
      /\ lastCmd[1].payload = NoPayload
      /\ \A i \in 1 .. Len(lastCmd[1].before) :
           lastCmd[1].before[i].chatId.n # lastCmd[1].n)
       => Includes(chatIds, [chatId |-> lastCmd[1].chatId, uid |-> TEMP_NO_UID])
  /\ \A e \in lastEvals :
       e.match =>
         \A n \in Chats :
           (\E i \in 1 .. Len(chatIds) :
              chatIds[i].chatId.n = n /\ chatIds[i].uid = TEMP_NO_UID)
             => SendsTo(e.targets, n) = 0
  /\ (/\ lastCmd # <<>> /\ lastCmd[1].cmd = "start"
      /\ lastCmd[1].payload # NoPayload
      /\ Includes(lastCmd[1].before,
                  [chatId |-> lastCmd[1].chatId, uid |-> TEMP_NO_UID]))
       => /\ Includes(chatIds, [chatId |-> lastCmd[1].chatId,
                                uid |-> lastCmd[1].payload])
          /\ \A i \in 1 .. Len(chatIds) :
               chatIds[i].chatId.n = lastCmd[1].n => chatIds[i].uid # TEMP_NO_UID

\* C12: /stop from a chat that has an entry removes the chat's entry, leaves
\* every other entry as it was and writes the file; /stop from a chat with no
\* entry leaves the registry as it was and does not write the file.
C12_StopRemovesOnlyThatEntry ==
  (lastCmd # <<>> /\ lastCmd[1].cmd = "stop")
    => LET c == lastCmd[1]
           Others(x) == x.chatId.n # c.n
       IN IF \E i \in 1 .. Len(c.before) : c.before[i].chatId.n = c.n
          THEN chatIds = SelectSeq(c.before, Others) /\ c.wrote
          ELSE chatIds = c.before /\ ~c.wrote

\* C13: /start and /stop are idempotent on the registry: from every registry
\* the server reaches, for every chat and payload, the command applied twice
\* leaves the registry the command applied once leaves.
C13_CommandsIdempotent ==
  \A n \in Chats :
    /\ \A p \in Owners \cup {NoPayload} :
         StartRegistry(StartRegistry(chatIds, n, p), n, p)
           = StartRegistry(chatIds, n, p)
    /\ StopRegistry(StopRegistry(chatIds, n), n) = StopRegistry(chatIds, n)

\* a /start <uid> repeated on a chat already bound to that uid
C13_Witness ==
  /\ lastCmd # <<>> /\ lastCmd[1].cmd = "start"
  /\ lastCmd[1].payload # NoPayload
  /\ ~lastCmd[1].wrote
  /\ Includes(chatIds, [chatId |-> lastCmd[1].chatId, uid |-> lastCmd[1].payload])

\* C14: every registry command is one serialized read-modify-write: the file
\* after the command is the command's result on the file as it was immediately
\* before, so no write made in between is overwritten by a stale copy.
C14_ReadModifyWriteSerialized ==
  lastCmd # <<>>
    => LET c == lastCmd[1]
       IN chatIds = CASE c.cmd = "start" -> StartRegistry(c.before, c.n, c.payload)
                      [] c.cmd = "stop" -> StopRegistry(c.before, c.n)
                      [] OTHER -> ConnectRegistry(c.before, c.payload, c.chatId)

\* a /start writes the file after POST /api/connect-telegram wrote it, and the
\* entry of the API is still there
C14_Witness ==
  /\ lastCmd # <<>> /\ lastCmd[1].cmd = "start" /\ lastCmd[1].wrote
  /\ \E i \in 1 .. Len(lastCmd[1].before) : lastCmd[1].before[i].chatId.ty = "num"
  /\ \E i \in 1 .. Len(chatIds) : chatIds[i].chatId.ty = "num"

\* C15: an error while one owner is processed does not end the tick: a tick
\* never ends, the process still running, while an owner it has not yet
\* reached has a task inside the tick's window and not on the ledger.
C15_ErrorDoesNotAbortTick ==
  [][\A k \in TickIds :
       (tick[k].pc = "tasks" /\ tick'[k].pc = "idle" /\ restarts' = restarts)
         => \A i \in 2 .. Len(tick[k].us) :
              \A t \in Range(UserTasks(tick[k].us[i])) :
                ~(/\ IsInWindow(ParseDeadline(t.deadline), tick[k].now)
                  /\ NotAlreadySent(notifiedTasks', t))]_vars

\* C16: when a tick ends without error, every stored task that is not marked
\* completed and whose deadline lies in the tick's window is on the ledger,
\* whichever route stored it and whether or not its owner has a profile.
C16_EveryQualifyingTaskDispatched ==
  [][\A k \in TickIds :
       (tick[k].pc # "idle" /\ tick'[k].pc = "idle")
         => \A t \in Range(tasks) :
              (/\ ~(t.hasCompleted /\ t.completed)
               /\ IsInWindow(ParseDeadline(t.deadline), tick[k].now))
                => Includes(notifiedTasks', t.id)]_vars

\* C17: with a tick at every minute boundary and no tick failing, a task that
\* is not completed and was stored during minute 0 with a deadline two minutes
\* or more ahead has been dispatched once its deadline has passed and the
\* ticks started before the deadline have ended.
C17_DispatchedBeforeDeadline ==
  \A t \in Range(tasks) :
    (/\ ~(t.hasCompleted /\ t.completed)
     /\ t.deadline >= WindowMinutes
     /\ now >= t.deadline
     /\ \A k \in TickIds : tick[k].pc = "idle" \/ tick[k].now >= t.deadline)
      => \E x \in dispatched : x.id = t.id /\ x.deadline = t.deadline

\* C18: the window is forward-only: no tick taken at or after a task's
\* deadline dispatches the task, whether or not an earlier tick saw it.
C18_ForwardOnly ==
  \A e \in lastEvals : e.match => e.now < e.deadline

\* a tick evaluates a task whose deadline has passed and that no tick ever
\* dispatched, and does not dispatch it
C18_Witness ==
  \E e \in lastEvals :
    /\ e.deadline \in 0 .. e.now
    /\ ~e.had /\ e.prior = {}
    /\ ~e.match

\* C19: a task marked completed is never dispatched.
C19_CompletedNeverDispatched ==
  \A e \in lastEvals : e.match => ~e.completed

\* C20: a task whose stored deadline is null or unparsable is not dispatched
\* and is not on the ledger, and the task that follows it in the owner's list
\* is evaluated in the same run of the loop.
C20_UnparsableDeadlineSkipped ==
  \A e \in lastEvals :
    e.deadline \in {Null, Garbage}
      => /\ ~e.match
         /\ ~Includes(notifiedTasks, e.id)
         /\ LET q == UserTasks(e.uid)
            IN \A i \in 1 .. Len(q) - 1 :
                 q[i].id = e.id => \E f \in lastEvals : f.id = q[i + 1].id

\* a run of the loop skips a task with an unparsable deadline and dispatches
\* the task after it
C20_Witness ==
  \E e \in lastEvals, f \in lastEvals :
    /\ e.deadline = Garbage
    /\ f.id = e.id + 1 /\ f.uid = e.uid
    /\ f.match

\* C21: no failure inside a run of triggerReminderCheck (a rejected query, an
\* unreadable chatIds.json, a failed send) leaves the run: the run is at one of
\* its awaits or has returned, a run whose query was rejected has returned, and
\* the next cron firing can start a run.
C21_FailureStaysInsideTick ==
  \A k \in TickIds :
    /\ tick[k].pc \in {"idle", "users", "tasks", "send"}
    /\ \A i \in 1 .. Len(lastFault) :
         (lastFault[i].k = k /\ lastFault[i].kind = "query")
           => tick[k].pc = "idle" /\ ENABLED CronTick(k)

C21_Witness ==
  /\ lastFault # <<>>
  /\ lastFault[1].kind = "query"
  /\ tick[lastFault[1].k].pc = "idle"

\* C22: whenever no run is in flight, a task's id is on the ledger if and
\* only if a dispatch was made for the task with its current deadline value.
C22_LedgerMatchesDispatches ==
  (\A k \in TickIds : tick[k].pc = "idle")
    => \A t \in Range(tasks) :
         Includes(notifiedTasks, t.id)
           <=> \E x \in dispatched : x.id = t.id /\ x.deadline = t.deadline

\* C23: a date-only deadline gives the same stored instant on create and on
\* edit: editing a task to the date it was created with leaves its stored
\* deadline as it was.
C23_DateOnlySameOnBothPaths ==
  [][\A u \in Owners, id \in TaskIds, day \in Days :
       PatchTaskDateOnly(u, id, day)
         => \A i \in 1 .. Len(tasks) :
              (tasks[i].id = id /\ tasks[i].uid = u
                 /\ tasks[i].deadline = CreateDateOnly(day))
                => tasks'[i].deadline = tasks[i].deadline]_vars

\* C24: the step that deletes a task issues exactly one calendar delete call,
\* with the task's event id, if the task carries one, and no calendar call if
\* it carries none.
C24_DeleteCallsCalendarOnce ==
  [][\A i \in 1 .. Len(tasks) :
       (\A j \in 1 .. Len(tasks') : tasks'[j].id # tasks[i].id)
         => lastCalls' = IF tasks[i].externalEventId # NoEvent
                         THEN <<[op |-> "delete", id |-> tasks[i].externalEventId]>>
                         ELSE <<>>]_vars

\* C25: a document that a step adds to the collection carries an event id
\* only if the step made a calendar insert.
C25_EventIdOnlyFromInsert ==
  [][\A j \in 1 .. Len(tasks') :
       ((\A i \in 1 .. Len(tasks) : tasks[i].id # tasks'[j].id)
          /\ tasks'[j].externalEventId # NoEvent)
         => \E c \in 1 .. Len(lastCalls') : lastCalls'[c].op = "insert"]_vars

\* a task created without an event id has had its reminder dispatched
C25_Witness ==
  /\ lastDone # <<>>
  /\ \E t \in Range(tasks) :
       t.id = lastDone[1].id /\ t.externalEventId = NoEvent

\* C26: no step gives an event id to a task that has none, and a step that
\* changes such a task issues no calendar call.
C26_EditNeverBackfills ==
  [][\A i \in 1 .. Len(tasks), j \in 1 .. Len(tasks') :
       (tasks[i].id = tasks'[j].id /\ tasks[i].externalEventId = NoEvent)
         => /\ tasks'[j].externalEventId = NoEvent
            /\ tasks'[j] # tasks[i] => lastCalls' = <<>>]_vars

\* a task without an event id after an edit that omitted the deadline
C26_Witness ==
  \E t \in Range(tasks) : t.externalEventId = NoEvent /\ t.deadline = Null

\* C28: the ledger holds no more entries than there are tasks whose deadline
\* is pending or passed by no more than the retention margin.
RetentionMinutes == 24 * 60

C28_LedgerBounded ==
  Len(notifiedTasks)
    <= Cardinality({i \in 1 .. Len(tasks) :
                      /\ tasks[i].deadline >= 0
                      /\ tasks[i].deadline + RetentionMinutes >= now})

\* C29: a dispatch for a task of owner U targets only chats that have an
\* entry with uid U in chatIds.json as the dispatch reads it, and no chat that
\* has an entry of another owner or of the unlinked sentinel.
C29_OnlyOwnersChannels ==
  \A e \in lastEvals :
    e.match =>
      \A i \in 1 .. Len(e.targets) :
        /\ \E j \in 1 .. Len(chatIds) :
             chatIds[j].chatId = e.targets[i] /\ chatIds[j].uid = e.uid
        /\ \A j \in 1 .. Len(chatIds) :
             chatIds[j].chatId.n = e.targets[i].n => chatIds[j].uid = e.uid

\* C30: a task id is on the ledger only if a dispatch for the task was started
\* in this process life, and it is not on the ledger while the run's dispatch
\* for the task has not returned.
C30_LedgerAfterDispatch ==
  /\ \A i \in 1 .. Len(notifiedTasks) :
       \E x \in dispatched : x.id = notifiedTasks[i] /\ x.life = restarts
  /\ \A k \in TickIds :
       tick[k].pc = "send" => ~Includes(notifiedTasks, Head(tick[k].cur).id)

C30_Witness ==
  /\ lastDone # <<>>
  /\ lastDone[1].targets # <<>>
  /\ Includes(notifiedTasks, lastDone[1].id)

\* C31: a PATCH whose body omits the deadline leaves the stored deadline of
\* the task as it was.
C31_OmittedDeadlineKept ==
  [][\A u \in Owners, id \in TaskIds :
       PatchTask(u, id, Absent)
         => \A i \in 1 .. Len(tasks) :
              (tasks[i].id = id /\ tasks[i].uid = u)
                => tasks'[i].deadline = tasks[i].deadline]_vars

\* C32: a /start without an owner id leaves every entry of chatIds.json as it
\* was, the entry of the channel with its genuine owner id included; at most
\* it appends an entry for a channel that had none.
C32_SentinelNeverOverwrites ==
  \A c \in Range(lastCmd) :
    (c.cmd = "start" /\ c.payload = NoPayload)
      => /\ Len(chatIds) >= Len(c.before)
         /\ \A i \in 1 .. Len(c.before) : chatIds[i] = c.before[i]
         /\ \A i \in 1 .. Len(chatIds) :
              (chatIds[i].chatId = c.chatId /\ i <= Len(c.before))
                => chatIds[i].uid = c.before[i].uid

C32_Witness ==
  \E c \in Range(lastCmd) :
    /\ c.cmd = "start"
    /\ c.payload = NoPayload
    /\ \E i \in 1 .. Len(c.before) :
         c.before[i].chatId = c.chatId /\ c.before[i].uid \in Owners

\* C33: whenever /start replies "Connected" or "Updated", chatIds.json holds
\* an entry for the channel with the owner value of the command.
C33_ReplyMeansPersisted ==
  \A c \in Range(lastCmd) :
    (c.cmd = "start" /\ StartReply(c.before, c.n, c.payload) \in {"connected", "updated"})
      => \E i \in 1 .. Len(chatIds) :
           /\ chatIds[i].chatId = c.chatId
           /\ chatIds[i].uid = IF c.payload # NoPayload THEN c.payload
                                ELSE TEMP_NO_UID

\* C34: every task stored through POST /api/tasks carries as owner the uid of
\* the authenticated user who made the request.
C34_CreatedForRequester ==
  \A r \in Range(lastReq) :
    r.op = "create"
      => \A t \in Range(tasks) : t.id = r.id => t.uid = r.user

\* C35: a PATCH or DELETE by an authenticated user who is not the owner of
\* the task is answered 404 and leaves the tasks collection as it was; a step
\* that changes or removes a task answers a request of its owner.
C35_NonOwnerChangesNothing ==
  [][/\ \A r \in Range(lastReq') :
          (r.op \in {"patch", "delete"}
             /\ \E t \in Range(tasks) : t.id = r.id /\ t.uid # r.user)
            => r.status = 404 /\ tasks' = tasks
     /\ \A i \in 1 .. Len(tasks) :
          (\A j \in 1 .. Len(tasks') : tasks'[j] # tasks[i])
            => \E r \in Range(lastReq') : r.user = tasks[i].uid]_vars

C35_Witness ==
  \E r \in Range(lastReq) :
    /\ r.op \in {"patch", "delete"}
    /\ r.status = 404
    /\ \E t \in Range(tasks) : t.id = r.id /\ t.uid # r.user

\* C36: a run that starts while the database connection is not established
\* evaluates no task, starts no dispatch, leaves the ledger as it was and
\* returns.
C36_NoDatabaseNoWork ==
  [][\A f \in Range(lastFault') :
       f.kind = "nodb"
         => /\ UNCHANGED <<tick, notifiedTasks, dispatched>>
            /\ tick'[f.k].pc = "idle"
            /\ lastEvals' = {}
            /\ lastDone' = <<>>]_vars

\* a run skipped although a task of a linked owner is inside its window
C36_Witness ==
  /\ \E f \in Range(lastFault) : f.kind = "nodb"
  /\ \E t \in Range(tasks) :
       /\ t.uid = "u1"
       /\ ~t.completed
       /\ IsInWindow(ParseDeadline(t.deadline), now)

\* a body with a threshold that is not a number, or not in the order
\* low < medium < high < critical
BadSettings(st) ==
  \/ \E f \in {"low", "medium", "high", "critical"} : st[f] = NonNumeric
  \/ ~(st.low < st.medium /\ st.medium < st.high /\ st.high < st.critical)

StoredSettingsOrdered ==
  \A u \in Owners :
    pressureSettings[u] # NoSettings => ~BadSettings(pressureSettings[u][1])

====
